---- MODULE Spec2Model ----
(***************************************************************************)
(* Storefront backend (src/main.py): list_products with first-run seeding  *)
(* and create_order with server-side pricing, over a shared document store.*)
(*                                                                         *)
(* Numbers.  price, shipping, subtotal and total are Python floats.  A     *)
(* float is modelled as a binary floating-point number with a PrecBits-bit *)
(* significand and a smallest quantum of 2^-FracBits (IEEE-754 binary64    *)
(* scaled down): the integer n stands for the value n / 2^FracBits, and    *)
(* every arithmetic result is rounded to nearest, ties to even, exactly as *)
(* the hardware rounds.  round(x, 2) rounds the exact binary value to      *)
(* cents and returns the float nearest to that decimal.                    *)
(***************************************************************************)
EXTENDS Integers, Sequences, FiniteSets, TLC

\* ---------------------------------------------------------------- bounds
PrecBits == 16
FracBits == 14
MaxItems == 3
MaxQty == 2
MaxCalls == 2

Procs == {"r1", "r2"}

\* ------------------------------------------------------ float arithmetic
Unit == 2 ^ FracBits

Abs(n) == IF n < 0 THEN 0 - n ELSE n

Max(a, b) == IF b > a THEN b ELSE a

Min(a, b) == IF b < a THEN b ELSE a

\* n / d rounded to the nearest integer, ties to the even one (d > 0).
RoundHalfEven(n, d) ==
    LET m == Abs(n)
        q == m \div d
        r == m % d
        a == IF 2 * r < d THEN q
             ELSE IF 2 * r > d THEN q + 1
             ELSE IF q % 2 = 0 THEN q ELSE q + 1
    IN  IF n < 0 THEN 0 - a ELSE a

\* The spacing of the floats around magnitude m (m >= 0, in quanta).
RECURSIVE Ulp(_, _)
Ulp(m, s) == IF m < s * (2 ^ PrecBits) THEN s ELSE Ulp(m, 2 * s)

\* The float nearest to the rational n / d quanta.
FlRat(n, d) ==
    LET s == Ulp(Abs(n) \div d, 1)
    IN  s * RoundHalfEven(n, d * s)

\* The float nearest to the exact value of n quanta: the rounding every
\* float operation applies to its exact result.
Fl(n) == FlRat(n, 1)

\* A decimal literal m / 1000 of a request body, parsed to a float.
Parse(mills) == FlRat(mills * Unit, 1000)

\* price * quantity (float times int).
Mul(x, k) == Fl(x * k)

\* a + b on floats.
Add(a, b) == Fl(a + b)

\* The number of cents nearest to float x (ties to even).
Cents(x) == RoundHalfEven(100 * x, Unit)

\* round(x, 2): the float nearest to the two-decimal rounding of x.
Round2(x) == FlRat(Cents(x) * Unit, 100)

\* ------------------------------------------------------------ catalog data
Some(x) == <<x>>

None == <<>>

\* The seed catalog, in insertion order.
SEED_PRODUCTS ==
    << [title |-> "AeroMesh Sneakers", price |-> Fl(129 * Unit),
        category |-> "shoes", rating |-> Some(Parse(4700))],
       [title |-> "Minimalist Backpack", price |-> Fl(89 * Unit),
        category |-> "bags", rating |-> Some(Parse(4600))],
       [title |-> "Supima Tee", price |-> Fl(39 * Unit),
        category |-> "apparel", rating |-> Some(Parse(4600))],
       [title |-> "Smartwatch Pro", price |-> Fl(199 * Unit),
        category |-> "wearables", rating |-> Some(Parse(4500))] >>

\* Query(default=20, ge=1, le=100)
DefaultLimit == 20

MinLimit == 1

Limits == {MinLimit, 2, DefaultLimit}

\* A product written to the collection by something other than this service
\* (no rating).
ForeignProduct ==
    [_id |-> 0, title |-> "Imported Item", price |-> Fl(10 * Unit),
     category |-> "misc", rating |-> None]

\* -------------------------------------------------------- request inputs
PriceMills == {4, 15, 10005}

ShippingMills == {0 - 10000, 4, 5000}

ItemKinds ==
    {[product |-> "sku", price |-> Parse(m), quantity |-> k] :
        m \in PriceMills, k \in 1..MaxQty}

ItemLists == UNION {[1..n -> ItemKinds] : n \in 0..MaxItems}

Shippings == {None} \cup {Some(Parse(m)) : m \in ShippingMills}

\* Every order body within the bounds.
AllOrders == {[items |-> its, shipping |-> sh] : its \in ItemLists, sh \in Shippings}

\* The order bodies submitted in the concurrent system.
SampleOrders ==
    { [items |-> <<>>, shipping |-> None],
      [items |-> <<[product |-> "sku", price |-> Parse(10005), quantity |-> 2]>>,
       shipping |-> Some(Parse(5000))] }

\* ---------------------------------------------------------------- pricing
\* sum(item.price * item.quantity for item in order.items): a left-to-right
\* float accumulation starting from 0, each addition rounded (the float
\* path of the builtin sum() up to CPython 3.11; later versions carry a
\* compensation term, which narrows but does not remove the rounding).
RECURSIVE SumFrom(_, _, _)
SumFrom(acc, items, k) ==
    IF k > Len(items) THEN acc
    ELSE SumFrom(Add(acc, Mul(items[k].price, items[k].quantity)), items, k + 1)

Subtotal(items) == SumFrom(0, items, 1)

\* Mutant: the max(0.0, ...) is lost.
Shipping_NoClamp(sh) == IF sh # None THEN sh[1] ELSE 0

\* max(0.0, float(order.shipping)) if order.shipping is not None else 0.0
Shipping(sh) == IF sh # None THEN Max(0, sh[1]) ELSE 0

Total(subtotal, shipping) == Round2(Add(subtotal, shipping))

\* The order document create_order builds from the request body.
OrderDoc(o) ==
    LET subtotal == Subtotal(o.items)
        shipping == Shipping(o.shipping)
    IN  [items |-> o.items,
         subtotal |-> Round2(subtotal),
         shipping |-> Round2(shipping),
         total |-> Total(subtotal, shipping)]

\* ------------------------------------------------------------------ store
\* str(ObjectId)
IdStr(n) == ToString(n)

\* create_document: the collection with the document appended under a fresh
\* store-assigned _id.
CreateDocument(coll, d, id) ==
    Append(coll, [x \in {"_id"} \cup DOMAIN d |-> IF x = "_id" THEN id ELSE d[x]])

\* get_documents: at most lim documents, in store order.
GetDocuments(coll, lim) == SubSeq(coll, 1, Min(lim, Len(coll)))

\* serialize_doc: _id becomes the string id; a present rating is a float.
serialize_doc(d) ==
    [id |-> IdStr(d._id), title |-> d.title, price |-> d.price,
     category |-> d.category,
     rating |-> IF d.rating # None THEN Some(Fl(d.rating[1])) ELSE None]

\* ------------------------------------------------------------------ state
VARIABLES
    dbConfigured,   \* db is not None
    product,        \* the product collection, in store order
    order,          \* the order collection, in store order
    nextId,         \* the next identifier the store assigns
    pc,             \* where each request handler stands
    op,             \* the operation of each handler's current (or last) request
    limit,          \* list_products: the limit parameter
    count,          \* list_products: the local count
    seedIdx,        \* list_products: position of the seed loop
    req,            \* create_order: the request body
    orderDoc,       \* create_order: the local order_doc
    resp,           \* the outcome of each handler's last request
    written,        \* the _ids the current (or last) request of a handler inserted
    ncalls,         \* the requests taken so far, over all handlers
    returned        \* the OrderOut of every successful create_order, in order

vars == <<dbConfigured, product, order, nextId, pc, op, limit, count, seedIdx,
          req, orderDoc, resp, written, ncalls, returned>>

store == <<product, order, nextId>>

NoResp == [status |-> 0, detail |-> "", products |-> <<>>, id |-> "", total |-> 0]

NoOrder == [items |-> <<>>, shipping |-> None]

\* raise HTTPException(status_code=500, detail="Database not configured")
NotConfigured == [NoResp EXCEPT !.status = 500, !.detail = "Database not configured"]

\* An exception of the store driver leaves the handler unhandled.
StoreError == [NoResp EXCEPT !.status = 500, !.detail = "Internal Server Error"]

Init ==
    /\ dbConfigured \in BOOLEAN
    /\ product \in {<<>>, <<ForeignProduct>>}
    /\ order = <<>>
    /\ nextId = 1
    /\ pc = [p \in Procs |-> "idle"]
    /\ op = [p \in Procs |-> "none"]
    /\ limit = [p \in Procs |-> DefaultLimit]
    /\ count = [p \in Procs |-> 0]
    /\ seedIdx = [p \in Procs |-> 1]
    /\ req = [p \in Procs |-> NoOrder]
    /\ orderDoc = [p \in Procs |-> OrderDoc(NoOrder)]
    /\ resp = [p \in Procs |-> NoResp]
    /\ written = [p \in Procs |-> {}]
    /\ ncalls = 0
    /\ returned = <<>>

\* A handler takes a new request.
Accept(p, o, lim, body) ==
    /\ pc[p] = "idle"
    /\ ncalls < MaxCalls
    /\ ncalls' = ncalls + 1
    /\ op' = [op EXCEPT ![p] = o]
    /\ limit' = [limit EXCEPT ![p] = lim]
    /\ req' = [req EXCEPT ![p] = body]
    /\ written' = [written EXCEPT ![p] = {}]
    /\ count' = [count EXCEPT ![p] = 0]
    /\ seedIdx' = [seedIdx EXCEPT ![p] = 1]

\* ----------------------------------------------------------- list_products
\* Mutant: the db check is lost.
ListProducts_NoDbCheck(p, lim) ==
    /\ Accept(p, "list", lim, NoOrder)
    /\ pc' = [pc EXCEPT ![p] = "count"]
    /\ resp' = [resp EXCEPT ![p] = NoResp]
    /\ UNCHANGED <<dbConfigured, store, orderDoc, returned>>

\* Entry: the db check.
ListProducts(p, lim) ==
    /\ Accept(p, "list", lim, NoOrder)
    /\ IF dbConfigured
       THEN /\ pc' = [pc EXCEPT ![p] = "count"]
            /\ resp' = [resp EXCEPT ![p] = NoResp]
       ELSE /\ pc' = pc
            /\ resp' = [resp EXCEPT ![p] = NotConfigured]
    /\ UNCHANGED <<dbConfigured, store, orderDoc, returned>>

\* Mutant: the seed loop runs whatever the count.
CountProducts_AlwaysSeed(p) ==
    /\ pc[p] = "count"
    /\ count' = [count EXCEPT ![p] = Len(product)]
    /\ pc' = [pc EXCEPT ![p] = "seed"]
    /\ UNCHANGED <<dbConfigured, store, op, limit, seedIdx, req, orderDoc, resp,
                   written, ncalls, returned>>

\* Mutant: the seed loop runs whenever the seed set is not complete.
CountProducts_SeedIfIncomplete(p) ==
    /\ pc[p] = "count"
    /\ count' = [count EXCEPT ![p] = Len(product)]
    /\ pc' = [pc EXCEPT ![p] = IF Len(product) < Len(SEED_PRODUCTS) THEN "seed" ELSE "fetch"]
    /\ UNCHANGED <<dbConfigured, store, op, limit, seedIdx, req, orderDoc, resp,
                   written, ncalls, returned>>

\* count = db["product"].count_documents({}); if count == 0: ...
CountProducts(p) ==
    /\ pc[p] = "count"
    /\ count' = [count EXCEPT ![p] = Len(product)]
    /\ pc' = [pc EXCEPT ![p] = IF Len(product) = 0 THEN "seed" ELSE "fetch"]
    /\ UNCHANGED <<dbConfigured, store, op, limit, seedIdx, req, orderDoc, resp,
                   written, ncalls, returned>>

\* Mutant: the inserts of one handler wait for the seed loop of another.
SeedInsert_Locked(p) ==
    /\ pc[p] = "seed"
    /\ \A q \in Procs \ {p} : pc[q] # "seed"
    /\ product' = CreateDocument(product, SEED_PRODUCTS[seedIdx[p]], nextId)
    /\ nextId' = nextId + 1
    /\ written' = [written EXCEPT ![p] = @ \cup {nextId}]
    /\ seedIdx' = [seedIdx EXCEPT ![p] = @ + 1]
    /\ pc' = [pc EXCEPT ![p] = IF seedIdx[p] = Len(SEED_PRODUCTS) THEN "fetch" ELSE "seed"]
    /\ UNCHANGED <<dbConfigured, order, op, limit, count, req, orderDoc, resp,
                   ncalls, returned>>

\* One turn of the loop: create_document("product", p).
SeedInsert(p) ==
    /\ pc[p] = "seed"
    /\ product' = CreateDocument(product, SEED_PRODUCTS[seedIdx[p]], nextId)
    /\ nextId' = nextId + 1
    /\ written' = [written EXCEPT ![p] = @ \cup {nextId}]
    /\ seedIdx' = [seedIdx EXCEPT ![p] = @ + 1]
    /\ pc' = [pc EXCEPT ![p] = IF seedIdx[p] = Len(SEED_PRODUCTS) THEN "fetch" ELSE "seed"]
    /\ UNCHANGED <<dbConfigured, order, op, limit, count, req, orderDoc, resp,
                   ncalls, returned>>

\* Mutant: the limit parameter is not passed on.
FetchProducts_NoLimit(p) ==
    /\ pc[p] = "fetch"
    /\ LET docs == GetDocuments(product, DefaultLimit)
       IN  resp' = [resp EXCEPT ![p] =
                      [NoResp EXCEPT !.status = 200,
                                     !.products = [k \in 1..Len(docs) |-> serialize_doc(docs[k])]]]
    /\ pc' = [pc EXCEPT ![p] = "idle"]
    /\ UNCHANGED <<dbConfigured, store, op, limit, count, seedIdx, req, orderDoc,
                   written, ncalls, returned>>

\* docs = get_documents("product", {}, limit=limit) and the response.
FetchProducts(p) ==
    /\ pc[p] = "fetch"
    /\ LET docs == GetDocuments(product, limit[p])
       IN  resp' = [resp EXCEPT ![p] =
                      [NoResp EXCEPT !.status = 200,
                                     !.products = [k \in 1..Len(docs) |-> serialize_doc(docs[k])]]]
    /\ pc' = [pc EXCEPT ![p] = "idle"]
    /\ UNCHANGED <<dbConfigured, store, op, limit, count, seedIdx, req, orderDoc,
                   written, ncalls, returned>>

\* ------------------------------------------------------------ create_order
\* Entry: the db check, then the pricing of the body into order_doc.
CreateOrder(p, o) ==
    /\ Accept(p, "create", DefaultLimit, o)
    /\ IF dbConfigured
       THEN /\ pc' = [pc EXCEPT ![p] = "insert"]
            /\ orderDoc' = [orderDoc EXCEPT ![p] = OrderDoc(o)]
            /\ resp' = [resp EXCEPT ![p] = NoResp]
       ELSE /\ pc' = pc
            /\ orderDoc' = orderDoc
            /\ resp' = [resp EXCEPT ![p] = NotConfigured]
    /\ UNCHANGED <<dbConfigured, store, returned>>

\* Mutant: an order equal to a stored one is not inserted again; the stored
\* one's identifier is returned.
InsertOrder_Dedup(p) ==
    /\ pc[p] = "insert"
    /\ LET same == {k \in 1..Len(order) :
                       [x \in DOMAIN orderDoc[p] |-> order[k][x]] = orderDoc[p]}
           newId == IF same = {} THEN nextId ELSE order[CHOOSE k \in same : TRUE]._id
           out == [NoResp EXCEPT !.status = 201, !.id = IdStr(newId),
                                 !.total = orderDoc[p].total]
       IN  /\ order' = IF same = {} THEN CreateDocument(order, orderDoc[p], nextId) ELSE order
           /\ nextId' = IF same = {} THEN nextId + 1 ELSE nextId
           /\ written' = [written EXCEPT ![p] = IF same = {} THEN @ \cup {nextId} ELSE @]
           /\ resp' = [resp EXCEPT ![p] = out]
           /\ returned' = Append(returned, [id |-> out.id, total |-> out.total])
    /\ pc' = [pc EXCEPT ![p] = "idle"]
    /\ UNCHANGED <<dbConfigured, product, op, limit, count, seedIdx, req, orderDoc,
                   ncalls>>

\* new_id = create_document("order", order_doc); return OrderOut(id, total).
InsertOrder(p) ==
    /\ pc[p] = "insert"
    /\ order' = CreateDocument(order, orderDoc[p], nextId)
    /\ nextId' = nextId + 1
    /\ written' = [written EXCEPT ![p] = @ \cup {nextId}]
    /\ LET out == [NoResp EXCEPT !.status = 201, !.id = IdStr(nextId),
                                 !.total = orderDoc[p].total]
       IN  /\ resp' = [resp EXCEPT ![p] = out]
           /\ returned' = Append(returned, [id |-> out.id, total |-> out.total])
    /\ pc' = [pc EXCEPT ![p] = "idle"]
    /\ UNCHANGED <<dbConfigured, product, op, limit, count, seedIdx, req, orderDoc,
                   ncalls>>

\* ---------------------------------------------------------- store failure
\* The store call a handler is about to make raises: nothing is written by
\* that call, and the exception leaves the handler (no try/except).
StoreFailure(p) ==
    /\ pc[p] \in {"count", "seed", "fetch", "insert"}
    /\ resp' = [resp EXCEPT ![p] = StoreError]
    /\ pc' = [pc EXCEPT ![p] = "idle"]
    /\ UNCHANGED <<dbConfigured, store, op, limit, count, seedIdx, req, orderDoc,
                   written, ncalls, returned>>

\* ---------------------------------------------------------- specifications
Step(p) ==
    \/ CountProducts(p)
    \/ SeedInsert(p)
    \/ FetchProducts(p)
    \/ InsertOrder(p)

Next ==
    \E p \in Procs :
        \/ \E lim \in Limits : ListProducts(p, lim)
        \/ \E o \in SampleOrders : CreateOrder(p, o)
        \/ Step(p)
        \/ StoreFailure(p)

\* The concurrent system: two handlers, any interleaving of their store calls.
Spec == Init /\ [][Next]_vars

\* Requests one at a time, and a store that does not fail: a handler moves
\* only while every other handler is idle.
SeqInit == Init /\ dbConfigured /\ product = <<>>

Alone(p) == \A q \in Procs \ {p} : pc[q] = "idle"

SeqNext ==
    \E p \in Procs :
        \/ \E lim \in Limits : Alone(p) /\ ListProducts(p, lim)
        \/ \E o \in SampleOrders : Alone(p) /\ CreateOrder(p, o)
        \/ Alone(p) /\ CountProducts(p)
        \/ Alone(p) /\ SeedInsert(p)
        \/ Alone(p) /\ FetchProducts(p)
        \/ Alone(p) /\ InsertOrder(p)

SeqSpec == SeqInit /\ [][SeqNext]_vars

\* The pricing of create_order over every order body within the bounds: one
\* order is submitted and inserted.
PricingNext ==
    \E p \in Procs :
        \/ ncalls = 0 /\ \E o \in AllOrders : CreateOrder(p, o)
        \/ InsertOrder(p)

PricingSpec == Init /\ [][PricingNext]_vars

\* ----------------------------------------------------------------- claims
\* Every rearrangement of a sequence of items.
Perms(items) ==
    {[k \in 1..Len(items) |-> items[f[k]]] : f \in Permutations(1..Len(items))}

\* The exact (real-number) sum of price * quantity over the items, in quanta.
RECURSIVE ExactSum(_, _)
ExactSum(items, k) ==
    IF k > Len(items) THEN 0
    ELSE items[k].price * items[k].quantity + ExactSum(items, k + 1)

\* The shipping a request asks for, by the rule of the specification:
\* absent is 0, negative is 0, anything else is itself.
ClampedShipping(sh) == IF sh = None THEN 0 ELSE IF sh[1] < 0 THEN 0 ELSE sh[1]

SeedTitles == [k \in 1..Len(SEED_PRODUCTS) |-> SEED_PRODUCTS[k].title]

Titles(coll) == [k \in 1..Len(coll) |-> coll[k].title]

Listed(p) == op[p] = "list" /\ pc[p] = "idle" /\ resp[p].status = 200

Created(p) == op[p] = "create" /\ pc[p] = "idle" /\ resp[p].status = 201

\* C1: in every persisted order, total is the two-decimal rounding of the
\* sum of the subtotal and the shipping stored in that same document.
C1_TotalOfStoredParts ==
    \A k \in 1..Len(order) :
        order[k].total = Round2(Add(order[k].subtotal, order[k].shipping))

\* C2: the persisted subtotal is the sum of price * quantity over the items,
\* rounded to two decimals, and every permutation of the items gives the
\* same subtotal.
C2_SubtotalOrderIndependent ==
    \A k \in 1..Len(order) :
        /\ order[k].subtotal = Round2(ExactSum(order[k].items, 1))
        /\ \A perm \in Perms(order[k].items) :
               OrderDoc([items |-> perm, shipping |-> None]).subtotal = order[k].subtotal

\* C3: the shipping priced into an order is max(0, s) for a supplied s and 0
\* for an absent one; a negative s is not rejected (the order is priced,
\* persisted and answered with 201), and the stored shipping is never
\* negative.
C3_ShippingClamped ==
    \A p \in Procs :
        (op[p] = "create" /\ dbConfigured) =>
            LET eff == ClampedShipping(req[p].shipping)
            IN  /\ pc[p] = "insert" \/ Created(p)
                /\ orderDoc[p].shipping = Round2(eff)
                /\ orderDoc[p].shipping >= 0
                /\ orderDoc[p].total = Round2(Add(Subtotal(req[p].items), eff))
                /\ Created(p) =>
                       \E k \in 1..Len(order) :
                           /\ IdStr(order[k]._id) = resp[p].id
                           /\ order[k].shipping = Round2(eff)
                           /\ order[k].shipping >= 0

C3_Witness ==
    \E p \in Procs :
        /\ Created(p)
        /\ req[p].shipping # None
        /\ req[p].shipping[1] < 0
        /\ Len(order) = 1
        /\ order[1].shipping = 0

\* C4: with requests one at a time, a working store and an empty collection
\* at the start, every list_products with the default limit returns exactly
\* the four seed products, and the collection then holds exactly those four
\* documents, however many listings came before.
C4_SequentialListing ==
    \A p \in Procs :
        (Listed(p) /\ limit[p] = DefaultLimit) =>
            /\ Len(product) = 4
            /\ Titles(product) = SeedTitles
            /\ resp[p].products = [k \in 1..4 |-> serialize_doc(product[k])]

C4_Witness ==
    /\ ncalls = 2
    /\ \A p \in Procs : Listed(p) /\ limit[p] = DefaultLimit
    /\ \E p, q \in Procs : p # q /\ resp[p].products = resp[q].products
    /\ Len(product) = 4

\* C5: with db None, list_products and create_order answer 500 "Database not
\* configured" and no handler ever reaches a store call: nothing is counted,
\* inserted or fetched, and both collections stay as they were.
C5_NotConfiguredFailsFast ==
    ~dbConfigured =>
        /\ \A p \in Procs :
               /\ pc[p] = "idle"
               /\ written[p] = {}
               /\ resp[p] = IF op[p] = "none" THEN NoResp ELSE NotConfigured
        /\ product \in {<<>>, <<ForeignProduct>>}
        /\ order = <<>>
        /\ nextId = 1
        /\ returned = <<>>

C5_Witness ==
    /\ ~dbConfigured
    /\ \E p, q \in Procs :
           /\ op[p] = "list" /\ resp[p].status = 500
           /\ op[q] = "create" /\ resp[q].status = 500

\* C6: every successful create_order adds exactly one order document and
\* returns its identifier and its stored total; the order documents are as
\* many as the successful calls and the returned identifiers are pairwise
\* distinct, identical submissions included.
C6_OneOrderPerSuccess ==
    /\ Len(order) = Len(returned)
    /\ \A k \in 1..Len(returned) :
           /\ returned[k].id = IdStr(order[k]._id)
           /\ returned[k].total = order[k].total
    /\ \A j, k \in 1..Len(returned) : j # k => returned[j].id # returned[k].id
    /\ \A j, k \in 1..Len(order) : j # k => order[j]._id # order[k]._id
    /\ \A p \in Procs :
           Created(p) =>
               \E k \in 1..Len(order) :
                   /\ resp[p].id = IdStr(order[k]._id)
                   /\ resp[p].total = order[k].total

C6_Witness ==
    /\ Len(order) = 2
    /\ order[1].items = order[2].items
    /\ order[1].items # <<>>
    /\ order[1].total = order[2].total
    /\ returned[1].id # returned[2].id
    /\ \A p \in Procs : Created(p)

\* C7: a list_products that answers returns min(limit, number of products
\* stored when it fetches) products, so never more than limit and exactly
\* limit when that many are stored.
C7_ResultLength ==
    [][\A p \in Procs :
          (pc[p] = "fetch" /\ pc'[p] = "idle" /\ resp'[p].status = 200) =>
              LET n == Len(resp'[p].products)
              IN  /\ n <= limit[p]
                  /\ n <= Len(product)
                  /\ n = limit[p] \/ n = Len(product)]_vars

C7_Witness ==
    \E p \in Procs :
        /\ Listed(p)
        /\ limit[p] = 2
        /\ Len(resp[p].products) = 2
        /\ Len(product) >= 4

\* C8: a request that ends in a store failure leaves in the store no
\* document it wrote.
C8_NoPartialCommit ==
    \A p \in Procs :
        resp[p] = StoreError =>
            /\ \A k \in 1..Len(product) : product[k]._id \notin written[p]
            /\ \A k \in 1..Len(order) : order[k]._id \notin written[p]

\* C9: nothing stands between a count that observed zero and the seed
\* inserts that follow it: a handler in its seed loop observed a count of
\* zero and can make its next insert whatever the collection holds by then.
C9_SeedNotAtomic ==
    \A p \in Procs :
        pc[p] = "seed" =>
            /\ count[p] = 0
            /\ seedIdx[p] \in 1..Len(SEED_PRODUCTS)
            /\ ENABLED SeedInsert(p)

\* Two listings each observed zero, each inserted the whole seed set, and
\* the collection holds every seed product twice.
C9_Witness ==
    /\ \A p \in Procs : Listed(p) /\ count[p] = 0 /\ Cardinality(written[p]) = 4
    /\ Len(product) = 8
    /\ \A t \in {SeedTitles[k] : k \in 1..4} :
           Cardinality({k \in 1..Len(product) : product[k].title = t}) = 2

\* C10: the product collection changes only by a seed insert of a handler
\* whose count observed zero, which appends one seed product and touches no
\* stored document; a handler enters the seed loop only on an empty
\* collection; create_order never changes the product collection.
C10_SeedOnlyWhenEmpty ==
    [][/\ product' # product =>
             \E p \in Procs :
                 /\ op[p] = "list" /\ pc[p] = "seed" /\ count[p] = 0
                 /\ Len(product') = Len(product) + 1
                 /\ SubSeq(product', 1, Len(product)) = product
                 /\ product'[Len(product')].title = SEED_PRODUCTS[seedIdx[p]].title
       /\ \A p \in Procs :
             (pc[p] = "count" /\ pc'[p] \in {"seed", "fetch"}) =>
                 /\ count'[p] = Len(product)
                 /\ pc'[p] = "seed" => Len(product) = 0
                 /\ pc'[p] = "fetch" => Len(product) # 0]_vars

C10_Witness ==
    \E p \in Procs :
        /\ Listed(p)
        /\ count[p] = 1
        /\ product = <<ForeignProduct>>
        /\ resp[p].products = <<serialize_doc(ForeignProduct)>>

====
